---------------------------- MODULE Spec2Model ----------------------------
(***************************************************************************)
(* Model of the inverted-pendulum firmware (the Arduino sketch embedded in *)
(* src/control/python_pc/main.spec, lines 57-143): two quadrature encoder  *)
(* channels ticked from one shared edge interrupt handler, a polling loop  *)
(* that samples both channels, sends a 5-byte telemetry frame when a       *)
(* sample changed, and scans the inbound serial bytes for 3-byte command   *)
(* frames which it hands to the motor driver.                              *)
(*                                                                         *)
(* RotaryEncoder and CytronMD are libraries the sketch includes; they are  *)
(* modelled by what the sketch relies on: getPosition() returns the        *)
(* channel's tick accumulator (a long), tick() moves it by -1, 0 or +1 for *)
(* the edge the hardware saw, setSpeed() receives the value it is passed.  *)
(* int is taken to be at least 32 bits wide (the sampled values below      *)
(* never overflow it); uint16_t and int16_t keep their width.              *)
(***************************************************************************)
EXTENDS Integers, Sequences, FiniteSets

(***************************************************************************)
(* Bounds of the model.                                                    *)
(***************************************************************************)
\* the accumulators stay within -MaxTick .. MaxTick while interrupts run
MaxTick == 1
\* the host sends at most MaxStream bytes
MaxStream == 6
\* half width of the windows of sampled accumulator values
SampleWidth == 1
\* periods added or subtracted when comparing raw and raw + 1200*k
MaxPeriods == 2
\* length of the longest fragment the host sends before its frames
MaxFragment == 2
\* the host sends at most MaxFrames whole frames after a fragment
MaxFrames == 3

(***************************************************************************)
(* Program constants.                                                      *)
(***************************************************************************)
TELEMETRY_SYNC == 170
COMMAND_SYNC == 85
ANGLE_WRAP == 1200
COMMAND_FRAME_LEN == 3

\* the bytes the host may put on the link: the command sync byte 0x55, and
\* 0x00, 0x38, 0xFF as payload or noise bytes
HostBytes == {0, 56, COMMAND_SYNC, 255}

(***************************************************************************)
(* Integer conversions of the C++ code.                                    *)
(***************************************************************************)
\* conversion of an integer to uint16_t
ToUint16(v) == v % 65536

\* a 16-bit pattern read as int16_t
ToInt16(v) == IF v % 65536 >= 32768 THEN (v % 65536) - 65536 ELSE v % 65536

\* the accumulator is a long stored in several bytes: its lowest byte and
\* the bytes above it
LowByte(v) == v % 256
HighBytes(v) == v \div 256
Assemble(lo, hi) == hi * 256 + lo

(***************************************************************************)
(* Encoder helpers.                                                        *)
(***************************************************************************)
\* the upper comparison with > in place of >= (a fault the properties must
\* detect)
AngleWrapOffByOne(angle_raw) ==
    IF angle_raw < 0 THEN angle_raw + ANGLE_WRAP
    ELSE IF angle_raw > ANGLE_WRAP THEN angle_raw - ANGLE_WRAP
    ELSE angle_raw

\* the int angle_raw after the single add-or-subtract of 1200
AngleWrap(angle_raw) ==
    IF angle_raw < 0 THEN angle_raw + ANGLE_WRAP
    ELSE IF angle_raw >= ANGLE_WRAP THEN angle_raw - ANGLE_WRAP
    ELSE angle_raw

\* uint16_t encoderReadAngle(), given what getPosition() returned
encoderReadAngle(raw) == ToUint16(AngleWrap(raw))

\* encoderReadX with a uint8_t return type (a fault the properties must detect)
encoderReadXNarrow(raw) == raw % 256

\* uint16_t encoderReadX(), given what getPosition() returned
encoderReadX(raw) == ToUint16(raw)

(***************************************************************************)
(* Telemetry encoding.                                                     *)
(***************************************************************************)
\* the two bytes in big-endian order (a fault the properties must detect)
SerialWrite16BigEndian(v) == << (v \div 256) % 256, v % 256 >>

\* Serial.write((uint8_t*)&v, 2): the two bytes of a uint16_t in memory
\* order (little-endian)
SerialWrite16(v) == << v % 256, (v \div 256) % 256 >>

\* the write of the marker left out (a fault the properties must detect)
TelemetryFrameNoSync(xv, av) == SerialWrite16(xv) \o SerialWrite16(av)

\* the three writes of one telemetry frame
TelemetryFrame(xv, av) == << TELEMETRY_SYNC >> \o SerialWrite16(xv) \o SerialWrite16(av)

\* the comparison with && in place of || (a fault the properties must detect)
ChangedBoth(xv, av, lx, la) == xv # lx /\ av # la

\* the angle left out of the comparison (a fault the properties must detect)
ChangedXOnly(xv, av, lx, la) == xv # lx

\* x != last_x_pos || angle != last_angle
Changed(xv, av, lx, la) == xv # lx \/ av # la

(***************************************************************************)
(* Command decoding.                                                       *)
(***************************************************************************)
\* Serial.available() >= 1 (a fault the properties must detect)
CommandReadyEager(n) == n >= 1

\* Serial.available() >= 3
CommandReady(n) == n >= COMMAND_FRAME_LEN

\* the first byte taken as the high byte (a fault the properties must detect)
ControlInputBigEndian(bytes) ==
    ToInt16(256 * (IF Len(bytes) >= 1 THEN bytes[1] ELSE 0)
            + (IF Len(bytes) >= 2 THEN bytes[2] ELSE 0))

\* Serial.readBytes((char*)&control_input, 2) into int16_t control_input = 0:
\* the bytes that arrive fill the value from its low byte, a byte that does
\* not arrive leaves its 0
ControlInput(bytes) ==
    ToInt16((IF Len(bytes) >= 1 THEN bytes[1] ELSE 0)
            + 256 * (IF Len(bytes) >= 2 THEN bytes[2] ELSE 0))

\* the byte compared with the telemetry marker 0xAA (a fault the properties
\* must detect)
IsTelemetrySync(b) == b = TELEMETRY_SYNC

\* Serial.read() == 0x55
IsCommandSync(b) == b = COMMAND_SYNC

Min(a, b) == IF a <= b THEN a ELSE b

\* the two bytes after the head read whatever the head is, and dropped with
\* it when it is not the sync byte (a fault the properties must detect)
CommandStepReadsAhead(buf) ==
    IF CommandReady(Len(buf))
    THEN LET got == Min(2, Len(buf) - 1)
         IN  IF IsCommandSync(Head(buf))
             THEN [rx  |-> SubSeq(buf, 2 + got, Len(buf)),
                   out |-> << ControlInput(SubSeq(buf, 2, 1 + got)) >>,
                   asked |-> 3]
             ELSE [rx |-> SubSeq(buf, 2 + got, Len(buf)), out |-> << >>, asked |-> 3]
    ELSE [rx |-> buf, out |-> << >>, asked |-> 0]

\* the command-handling part of one loop iteration on the buffered bytes buf:
\* the bytes left in the buffer, the values passed to motor.setSpeed, and the
\* number of bytes its reads ask for (Serial.read() one, readBytes two)
CommandStep(buf) ==
    IF CommandReady(Len(buf))
    THEN IF IsCommandSync(Head(buf))
         THEN LET got == Min(2, Len(buf) - 1)
              IN  [rx  |-> SubSeq(buf, 2 + got, Len(buf)),
                   out |-> << ControlInput(SubSeq(buf, 2, 1 + got)) >>,
                   asked |-> 3]
         ELSE [rx |-> Tail(buf), out |-> << >>, asked |-> 1]
    ELSE [rx |-> buf, out |-> << >>, asked |-> 0]

\* the motor stopped by an iteration that decodes no frame (a fault the
\* properties must detect)
MotorAfterReset(m, out) == IF out # << >> THEN out[1] ELSE 0

\* motor.setSpeed(control_input) is called for a decoded frame only: the
\* speed the driver holds after a command step that dispatched out
MotorAfter(m, out) == IF out # << >> THEN out[1] ELSE m

\* the LED lit for positive commands only (a fault the properties must detect)
LedLevelPositive(control_input) == control_input > 0

\* digitalWrite(LED_BUILTIN, control_input != 0)
LedLevel(control_input) == control_input # 0

\* the values dispatched when buf is buffered whole and loop() iterates until
\* an iteration leaves the buffer as it is
RECURSIVE DecodeAll(_)
DecodeAll(buf) ==
    LET r == CommandStep(buf)
    IN  IF r.rx = buf THEN << >> ELSE r.out \o DecodeAll(r.rx)

(***************************************************************************)
(* State.                                                                  *)
(***************************************************************************)
VARIABLES
    xPos,         \* tick accumulator of x_encoder
    anglePos,     \* tick accumulator of angle_encoder
    edge,         \* history: the channel whose pins had the last edge
    pc,           \* position of loop()
    lo,           \* low byte of the accumulator read in progress
    x,            \* loop(): uint16_t x
    angle,        \* loop(): uint16_t angle
    last_x_pos,   \* loop(): static uint16_t last_x_pos
    last_angle,   \* loop(): static uint16_t last_angle
    sent,         \* bytes written to Serial in the current iteration
    rx,           \* inbound bytes buffered by Serial
    motor,        \* value last passed to motor.setSpeed
    led,          \* level of LED_BUILTIN
    prev_x,       \* history: last_x_pos before the telemetry step
    prev_angle,   \* history: last_angle before the telemetry step
    held,         \* history: values the accumulator held during the read in progress
    stream,       \* history: all bytes the host has sent
    applied,      \* history: all values passed to motor.setSpeed, in order
    partial,      \* history: the command step has met fewer than 3 buffered bytes
    waited,       \* history: a read of the command step asked for bytes not buffered
    quiet,        \* history: the last command step dispatched nothing
    moved,        \* history: an accumulator changed since the iteration began
    fragLen       \* history: length of the fragment the host sent before its frames

vars == << xPos, anglePos, edge, pc, lo, x, angle, last_x_pos, last_angle, sent, rx,
           motor, led, prev_x, prev_angle, held, stream, applied, partial, waited,
           quiet, moved, fragLen >>

encoderVars == << xPos, anglePos, edge >>
linkVars == << rx, motor, led, stream, applied, partial, waited, quiet, fragLen >>
telemetryVars == << last_x_pos, last_angle, sent, prev_x, prev_angle >>

\* setup(): both accumulators set to 0, statics of loop() at 0, nothing
\* received, motor never commanded, LED low
Init ==
    /\ xPos = 0
    /\ anglePos = 0
    /\ edge = "none"
    /\ pc = "readX"
    /\ lo = 0
    /\ x = 0
    /\ angle = 0
    /\ last_x_pos = 0
    /\ last_angle = 0
    /\ sent = << >>
    /\ rx = << >>
    /\ motor = 0
    /\ led = FALSE
    /\ prev_x = 0
    /\ prev_angle = 0
    /\ held = {}
    /\ stream = << >>
    /\ applied = << >>
    /\ partial = FALSE
    /\ waited = FALSE
    /\ quiet = FALSE
    /\ moved = FALSE
    /\ fragLen = 0

(***************************************************************************)
(* Interrupt handler.                                                      *)
(***************************************************************************)
\* RotaryEncoder::tick() on a channel whose pins made the transition dir:
\* +1 a forward step, -1 a backward step, 0 no or an invalid transition
tick(pos, dir) == pos + dir

\* both encoders bound to the pins that had the edge (a fault the properties
\* must detect)
checkPositionSharedPins(ch, dir) ==
    /\ xPos' = tick(xPos, dir)
    /\ anglePos' = tick(anglePos, dir)
    /\ xPos' \in -MaxTick .. MaxTick
    /\ anglePos' \in -MaxTick .. MaxTick
    /\ edge' = ch
    /\ held' = IF pc = "readXhi" THEN held \cup {xPos'}
               ELSE IF pc = "readAngleHi" THEN held \cup {anglePos'}
               ELSE held
    /\ moved' = (moved \/ xPos' # xPos \/ anglePos' # anglePos)
    /\ UNCHANGED << pc, lo, x, angle, telemetryVars, linkVars >>

\* checkPosition(), run for an edge on the pins of channel ch: both encoders
\* are ticked, the channel without an edge sees no transition
checkPosition(ch, dir) ==
    /\ xPos' = tick(xPos, IF ch = "x" THEN dir ELSE 0)
    /\ anglePos' = tick(anglePos, IF ch = "angle" THEN dir ELSE 0)
    /\ xPos' \in -MaxTick .. MaxTick
    /\ anglePos' \in -MaxTick .. MaxTick
    /\ edge' = ch
    /\ held' = IF pc = "readXhi" THEN held \cup {xPos'}
               ELSE IF pc = "readAngleHi" THEN held \cup {anglePos'}
               ELSE held
    /\ moved' = (moved \/ xPos' # xPos \/ anglePos' # anglePos)
    /\ UNCHANGED << pc, lo, x, angle, telemetryVars, linkVars >>

Interrupt == \E ch \in {"x", "angle"}, dir \in {-1, 0, 1} : checkPosition(ch, dir)

(***************************************************************************)
(* loop().                                                                 *)
(***************************************************************************)
\* x_encoder->getPosition(), first part of the unprotected read
ReadXLow ==
    /\ pc = "readX"
    /\ lo' = LowByte(xPos)
    /\ held' = {xPos}
    /\ sent' = << >>
    /\ prev_x' = 0
    /\ prev_angle' = 0
    /\ moved' = FALSE
    /\ pc' = "readXhi"
    /\ UNCHANGED << encoderVars, x, angle, last_x_pos, last_angle, linkVars >>

\* rest of the read; uint16_t x = encoderReadX()
ReadXHigh ==
    /\ pc = "readXhi"
    /\ x' = encoderReadX(Assemble(lo, HighBytes(xPos)))
    /\ lo' = 0
    /\ pc' = "readAngle"
    /\ UNCHANGED << encoderVars, angle, telemetryVars, held, moved, linkVars >>

\* angle_encoder->getPosition(), first part of the unprotected read
ReadAngleLow ==
    /\ pc = "readAngle"
    /\ lo' = LowByte(anglePos)
    /\ held' = {anglePos}
    /\ pc' = "readAngleHi"
    /\ UNCHANGED << encoderVars, x, angle, telemetryVars, moved, linkVars >>

\* rest of the read; uint16_t angle = encoderReadAngle()
ReadAngleHigh ==
    /\ pc = "readAngleHi"
    /\ angle' = encoderReadAngle(Assemble(lo, HighBytes(anglePos)))
    /\ lo' = 0
    /\ pc' = "telemetry"
    /\ UNCHANGED << encoderVars, x, telemetryVars, held, moved, linkVars >>

\* if (x != last_x_pos || angle != last_angle) { write the frame; remember it }
Telemetry ==
    /\ pc = "telemetry"
    /\ prev_x' = last_x_pos
    /\ prev_angle' = last_angle
    /\ IF Changed(x, angle, last_x_pos, last_angle)
       THEN /\ sent' = sent \o TelemetryFrame(x, angle)
            /\ last_x_pos' = x
            /\ last_angle' = angle
       ELSE UNCHANGED << sent, last_x_pos, last_angle >>
    /\ held' = {}
    /\ pc' = "command"
    /\ UNCHANGED << encoderVars, lo, x, angle, moved, linkVars >>

\* if (Serial.available() >= 3) { if (Serial.read() == 0x55) { readBytes;
\* motor.setSpeed(control_input); digitalWrite(LED_BUILTIN, control_input != 0) } }
\* and the end of the iteration: the locals x and angle are gone
Command ==
    /\ pc = "command"
    /\ LET r == CommandStep(rx)
       IN  /\ rx' = r.rx
           /\ applied' = applied \o r.out
           /\ motor' = MotorAfter(motor, r.out)
           /\ led' = IF r.out # << >> THEN LedLevel(r.out[1]) ELSE led
           /\ waited' = (waited \/ r.asked > Len(rx))
           /\ quiet' = (r.out = << >>)
    /\ partial' = (partial \/ (rx # << >> /\ ~CommandReady(Len(rx))))
    /\ x' = 0
    /\ angle' = 0
    /\ pc' = "readX"
    /\ UNCHANGED << encoderVars, lo, telemetryVars, held, moved, stream, fragLen >>

Loop == ReadXLow \/ ReadXHigh \/ ReadAngleLow \/ ReadAngleHigh \/ Telemetry \/ Command

(***************************************************************************)
(* The host.                                                               *)
(***************************************************************************)
\* one more byte from the host reaches the receive buffer
HostSend(b) ==
    /\ Len(stream) < MaxStream
    /\ rx' = Append(rx, b)
    /\ stream' = Append(stream, b)
    /\ UNCHANGED << encoderVars, pc, lo, x, angle, telemetryVars, held, moved, motor, led,
                    applied, partial, waited, quiet, fragLen >>

Host == \E b \in HostBytes : HostSend(b)

(***************************************************************************)
(* Specifications.                                                         *)
(***************************************************************************)
Next == Interrupt \/ Loop \/ Host

\* the whole firmware
Spec == Init /\ [][Next]_vars

\* encoders moving, host silent
SensorNext == Interrupt \/ Loop
SpecSensors == Init /\ [][SensorNext]_vars

\* host sending, encoders at rest
LinkNext == Loop \/ Host
SpecLink == Init /\ [][LinkNext]_vars

\* the loop polling encoders that were turned to some count before it runs
\* and are at rest: windows of counts around the ends of the 16-bit range,
\* the multiples of the wrap modulus and the counts 100 and 1250
Window(c) == (c - SampleWidth) .. (c + SampleWidth)
XSamples == UNION { Window(c) : c \in {-32768, 0, 100, 32767} }
AngleSamples == UNION { Window(c) : c \in {-ANGLE_WRAP, 0, ANGLE_WRAP, 1250, 2 * ANGLE_WRAP, 65535 + ANGLE_WRAP} }

InitSampled ==
    /\ xPos \in XSamples
    /\ anglePos \in AngleSamples
    /\ edge = "none"
    /\ pc = "readX"
    /\ lo = 0
    /\ x = 0
    /\ angle = 0
    /\ last_x_pos = 0
    /\ last_angle = 0
    /\ sent = << >>
    /\ rx = << >>
    /\ motor = 0
    /\ led = FALSE
    /\ prev_x = 0
    /\ prev_angle = 0
    /\ held = {}
    /\ stream = << >>
    /\ applied = << >>
    /\ partial = FALSE
    /\ waited = FALSE
    /\ quiet = FALSE
    /\ moved = FALSE
    /\ fragLen = 0

SpecSampled == InitSampled /\ [][Loop]_vars

(***************************************************************************)
(* The wire formats as the host sees them (spec section 6).                *)
(***************************************************************************)
\* a field of a frame read as a little-endian unsigned / signed 16-bit integer
DecodeU16(b0, b1) == b0 + 256 * b1
DecodeS16(b0, b1) == IF b1 >= 128 THEN b0 + 256 * b1 - 65536 ELSE b0 + 256 * b1

\* a concatenation of 3-byte command frames 0x55, lo, hi, with noise bytes
\* other than 0x55 between them
RECURSIVE WellFramed(_)
WellFramed(s) ==
    IF s = << >> THEN TRUE
    ELSE IF Head(s) = 85 THEN Len(s) >= 3 /\ WellFramed(SubSeq(s, 4, Len(s)))
    ELSE WellFramed(Tail(s))

\* the payloads of the frames of a well-framed stream, in stream order
RECURSIVE Payloads(_)
Payloads(s) ==
    IF s = << >> THEN << >>
    ELSE IF Head(s) = 85 THEN << DecodeS16(s[2], s[3]) >> \o Payloads(SubSeq(s, 4, Len(s)))
    ELSE Payloads(Tail(s))

\* the range of speeds the motor driver supports
ActuatorRange == -255 .. 255

(***************************************************************************)
(* The link after a fragment.                                              *)
(***************************************************************************)
\* the payloads of the frames that are buffered whole in s, as the scanner of
\* spec section 4.4 yields them: bytes other than 0x55 are skipped, 0x55 and
\* the two bytes after it make a frame
RECURSIVE CompleteFrames(_)
CompleteFrames(s) ==
    IF s = << >> THEN << >>
    ELSE IF Head(s) = 85
         THEN IF Len(s) >= 3
              THEN << DecodeS16(s[2], s[3]) >> \o CompleteFrames(SubSeq(s, 4, Len(s)))
              ELSE << >>
         ELSE CompleteFrames(Tail(s))

\* a host that first puts a fragment of up to MaxFragment bytes on the link (a
\* stray sync byte, noise, the tail of a frame cut short) and then whole
\* command frames only
FragmentBytes == {0, COMMAND_SYNC}
PayloadLow == {0, 56, COMMAND_SYNC}
PayloadHigh == {0, COMMAND_SYNC}

\* the frames the host has sent after its fragment
FramesSent == CompleteFrames(SubSeq(stream, fragLen + 1, Len(stream)))

HostFragment(b) ==
    /\ Len(stream) = fragLen
    /\ fragLen < MaxFragment
    /\ rx' = Append(rx, b)
    /\ stream' = Append(stream, b)
    /\ fragLen' = fragLen + 1
    /\ UNCHANGED << encoderVars, pc, lo, x, angle, telemetryVars, held, moved, motor, led,
                    applied, partial, waited, quiet >>

HostFrame(b0, b1) ==
    /\ Len(FramesSent) < MaxFrames
    /\ rx' = rx \o << COMMAND_SYNC, b0, b1 >>
    /\ stream' = stream \o << COMMAND_SYNC, b0, b1 >>
    /\ UNCHANGED << encoderVars, pc, lo, x, angle, telemetryVars, held, moved, motor, led,
                    applied, partial, waited, quiet, fragLen >>

HostFragments == \E b \in FragmentBytes : HostFragment(b)
HostFrames == \E b0 \in PayloadLow, b1 \in PayloadHigh : HostFrame(b0, b1)

\* the link after a fragment: encoders at rest
ResyncNext == Loop \/ HostFragments \/ HostFrames
SpecResync == Init /\ [][ResyncNext]_vars

(***************************************************************************)
(* Both directions of the link at once.                                    *)
(***************************************************************************)
\* the cart moving (edges on the x channel, the pendulum at rest) while the
\* host sends the command -200 up to MaxFrames times
CartInterrupt == \E dir \in {-1, 0, 1} : checkPosition("x", dir)
HostCommand == HostFrame(56, 255)

DuplexNext == CartInterrupt \/ Loop \/ HostCommand
SpecDuplex == Init /\ [][DuplexNext]_vars

(***************************************************************************)
(* Properties.                                                             *)
(***************************************************************************)

\* C1: the angle sampled by encoderReadAngle, and so the angle field of every
\* frame sent, lies in [0, 1200) whatever the raw tick count is.
\* The code wraps once only: it fails for raw counts below -1200 or from 2400 on.
C1_AngleInRange ==
    /\ pc = "telemetry" => angle \in 0 .. (ANGLE_WRAP - 1)
    /\ sent # << >> => DecodeU16(sent[4], sent[5]) \in 0 .. (ANGLE_WRAP - 1)

\* C2: every value passed to motor.setSpeed lies within [-255, 255].
\* The code passes the decoded int16_t on without clamping it.
C2_AppliedWithinRange == \A i \in 1 .. Len(applied) : applied[i] \in ActuatorRange

\* C3: however the host's bytes are split into chunks arriving between loop
\* iterations, the values dispatched so far followed by those the buffered
\* bytes still yield are the values dispatched when the whole stream is
\* buffered before the first iteration.
C3_ChunkIndependence == applied \o DecodeAll(rx) = DecodeAll(stream)

\* C3 witness: the command step has met a partly arrived frame or noise, left
\* it, and a command was dispatched all the same.
C3_Witness ==
    /\ partial
    /\ applied = << -200 >>
    /\ stream = << 85, 56, 255 >>

\* C4: after the telemetry step of an iteration exactly one frame has been
\* written when the sampled x or the sampled angle differs from the value of
\* the previously sent frame (the last-sent snapshot), none when both are
\* equal; no iteration writes more than one frame, and the snapshot is the
\* content of the frame just written.
C4_ChangeDetection ==
    /\ Len(sent) \in {0, 5}
    /\ pc = "command" =>
         /\ (x # prev_x \/ angle # prev_angle) => Len(sent) = 5
         /\ (x = prev_x /\ angle = prev_angle) => Len(sent) = 0
         /\ Len(sent) = 5 => (last_x_pos = x /\ last_angle = angle)
         /\ Len(sent) = 0 => (last_x_pos = prev_x /\ last_angle = prev_angle)

\* C4 witness: an iteration in which only the angle changed has sent a frame.
C4_Witness ==
    /\ pc = "command"
    /\ x = prev_x
    /\ angle # prev_angle
    /\ Len(sent) = 5

C6_WellFramedDispatch ==
    /\ WellFramed(stream) =>
         /\ WellFramed(rx)
         /\ applied \o Payloads(rx) = Payloads(stream)
    /\ (stream = << 85, 56, 255 >> /\ rx = << >>) => applied = << -200 >>

\* C6 witness: two frames have been dispatched, the first one -200.
C6_Witness ==
    /\ stream = << 85, 56, 255, 85, 255, 0 >>
    /\ applied = << -200, 255 >>

\* C7: a frame written is the 5 bytes 0xAA, x low, x high, angle low, angle
\* high of the sampled x (the tick count as a uint16_t) and the sampled
\* angle; ticks 100 and raw angle 1250 give AA 64 00 32 00.
C7_TelemetryFrameBytes ==
    /\ (pc = "command" /\ sent # << >>) =>
         /\ Len(sent) = 5
         /\ sent[1] = 170
         /\ x = xPos % 65536
         /\ sent[2] = x % 256 /\ sent[3] = x \div 256
         /\ sent[4] = angle % 256 /\ sent[5] = angle \div 256
    /\ (pc = "command" /\ sent # << >> /\ xPos = 100 /\ anglePos = 1250) =>
         sent = << 170, 100, 0, 50, 0 >>

\* C7 witness: the frame of the example has been written.
C7_Witness ==
    /\ xPos = 100
    /\ anglePos = 1250
    /\ sent = << 170, 100, 0, 50, 0 >>

\* C8: decoding the fields of a written frame as little-endian 16-bit integers
\* gives back the position, when it is in the signed 16-bit range, and the
\* angle reading, when it is in the unsigned 16-bit range; the conversions and
\* the frame encoding give every value of the two ranges back.
C8_TelemetryRoundTrip ==
    (pc = "command" /\ sent # << >>) =>
        /\ xPos \in -32768 .. 32767 => DecodeS16(sent[2], sent[3]) = xPos
        /\ AngleWrap(anglePos) \in 0 .. 65535 => DecodeU16(sent[4], sent[5]) = AngleWrap(anglePos)
        /\ (xPos = 100 /\ anglePos = 1250) =>
             /\ \A v \in -32768 .. 32767 :
                  LET f == TelemetryFrame(encoderReadX(v), 0) IN DecodeS16(f[2], f[3]) = v
             /\ \A r \in 0 .. 65535 :
                  LET f == TelemetryFrame(0, ToUint16(r)) IN DecodeU16(f[4], f[5]) = r

\* C8 witness: a frame carrying the lowest position and the highest reading.
C8_Witness ==
    /\ pc = "command"
    /\ sent # << >>
    /\ xPos = -32768
    /\ AngleWrap(anglePos) = 65535

\* C9: the sampled angle is the same for raw and raw + 1200*k, for every k.
\* The single wrap makes 0 and 2400 give 0 and 1200.
C9_AnglePeriodic ==
    pc = "telemetry" =>
        \A k \in -MaxPeriods .. MaxPeriods : encoderReadAngle(anglePos + ANGLE_WRAP * k) = angle

\* C11: the command step never blocks: none of its reads asks for a byte that
\* is not buffered, and a step that finds fewer than the 3 bytes of a frame
\* buffered consumes nothing and dispatches nothing.
C11_NeverBlocks ==
    /\ [](~waited)
    /\ [][(pc = "command" /\ pc' = "readX" /\ Len(rx) < COMMAND_FRAME_LEN) =>
            (rx' = rx /\ applied' = applied /\ motor' = motor /\ led' = led)]_vars

\* C11 witness: a command step has met one or two buffered bytes and has
\* returned without reading or dispatching.
C11_Witness ==
    /\ partial
    /\ ~waited
    /\ pc = "readX"
    /\ Len(rx) \in 1 .. 2
    /\ rx = stream
    /\ applied = << >>

\* C12: the command step of an iteration dispatches every frame that is
\* buffered whole when it starts, and no whole frame is left buffered when
\* the iteration ends.
\* The code tests Serial.available() with an if, once per iteration: it takes
\* one frame or one noise byte and leaves the rest for later iterations.
C12_DrainsCompleteFrames ==
    [][(pc = "command" /\ pc' = "readX") =>
          /\ applied' = applied \o CompleteFrames(rx)
          /\ CompleteFrames(rx') = << >>]_vars

\* the last n elements of s
LastN(s, n) == SubSeq(s, Len(s) - n + 1, Len(s))

\* no payload byte of the frames sent after the fragment is the sync byte 0x55
PayloadsFreeOfSync ==
    \A i \in (fragLen + 1) .. Len(stream) :
        stream[i] = COMMAND_SYNC => (i - fragLen) % COMMAND_FRAME_LEN = 1

\* C13 (as stated): after any fragment the scanner returns to frame alignment:
\* once two or more whole frames have followed the fragment and the loop has
\* consumed all it can, the last frame sent has been dispatched with its own
\* payload.
\* A payload byte 0x55 is taken for a sync byte by a misaligned scanner: after
\* the fragment 55 every frame 55 38 55 is read as 55 55 38.
C13_SelfHeals ==
    (fragLen > 0 /\ Len(FramesSent) >= 2 /\ ~CommandReady(Len(rx))) =>
        /\ applied # << >>
        /\ applied[Len(applied)] = FramesSent[Len(FramesSent)]

\* C13 (amended): when no payload byte of the frames that follow the fragment
\* is 0x55, the scanner is aligned again after the first of them at the
\* latest: once the loop has consumed all it can, every frame from the second
\* on has been dispatched with its own payload, in order.
C13_SelfHealsCleanPayloads ==
    (Len(FramesSent) >= 2 /\ PayloadsFreeOfSync /\ ~CommandReady(Len(rx))) =>
        /\ Len(applied) >= Len(FramesSent) - 1
        /\ LastN(applied, Len(FramesSent) - 1) = LastN(FramesSent, Len(FramesSent) - 1)

\* C13 witness: a stray sync byte made the scanner read the first frame out of
\* step (56 + 256*0 sent, 85 + 256*56 dispatched); the frames after it were
\* dispatched with their own payloads.
C13_Witness ==
    /\ stream = << 85, 85, 56, 0, 85, 0, 0, 85, 56, 0 >>
    /\ applied = << 14421, 0, 56 >>
    /\ rx = << >>

\* C14: once a command has been dispatched the LED is on exactly when the
\* value dispatched last is not 0, and the LED changes only in a step that
\* dispatches a command.
C14_LedFollowsLastCommand ==
    /\ [](applied # << >> => (led <=> applied[Len(applied)] # 0))
    /\ [][led' # led => Len(applied') = Len(applied) + 1]_vars

\* C14 witness: the LED went on with the command -200 and off with the
\* command 0 after it.
C14_Witness ==
    /\ applied = << -200, 0 >>
    /\ led = FALSE
    /\ rx = << >>

\* C15: an iteration whose command step does not decode a whole frame (nothing
\* buffered, fewer than 3 bytes, or a noise byte at the head) does not call the
\* motor driver and leaves the speed it holds as it is; so do all other steps
\* of the loop, however long the host is silent.
C15_MotorHoldsLastValue ==
    [][~(pc = "command" /\ Len(rx) >= COMMAND_FRAME_LEN /\ Head(rx) = 85) =>
          (applied' = applied /\ motor' = motor)]_vars

\* C15 witness: an iteration has ended without a frame decoded, the receive
\* buffer is empty and the motor still holds the -200 commanded before.
C15_Witness ==
    /\ quiet
    /\ pc = "readX"
    /\ rx = << >>
    /\ applied = << -200 >>
    /\ motor = -200

C17_NoiseByteDiscarded ==
    [][(pc = "command" /\ pc' = "readX" /\ rx # << >> /\ ~(Head(rx) = 85)) =>
          /\ rx' = Tail(rx)
          /\ applied' = applied /\ motor' = motor /\ led' = led
          /\ last_x_pos' = last_x_pos /\ last_angle' = last_angle /\ sent' = sent]_vars

\* C17 (amended): a command step that finds at least 3 bytes buffered and a
\* byte other than 0x55 at the head discards that byte and nothing after it,
\* does not call the motor driver, and leaves the LED and the last-sent
\* telemetry snapshot as they are.
C17_NoiseByteDiscardedWhenReady ==
    [][(pc = "command" /\ pc' = "readX" /\ Len(rx) >= 3 /\ ~(Head(rx) = 85)) =>
          /\ rx' = Tail(rx)
          /\ applied' = applied /\ motor' = motor /\ led' = led
          /\ last_x_pos' = last_x_pos /\ last_angle' = last_angle /\ sent' = sent]_vars

\* C17 witness: the noise byte 00 ahead of 55 38 has been discarded, the two
\* bytes after it are still buffered and nothing was dispatched.
C17_Witness ==
    /\ pc = "readX"
    /\ stream = << 0, 85, 56 >>
    /\ rx = << 85, 56 >>
    /\ applied = << >>
    /\ led = FALSE

\* C18: after the telemetry step of every iteration the last-sent snapshot is
\* the pair of readings sampled in that iteration; when no accumulator changed
\* during the iteration the snapshot is the reading of the current counts (the
\* position as a uint16_t, the angle as encoderReadAngle wraps it), and when
\* the snapshot held that pair already the iteration sends no frame; as long
\* as the interrupt handler has never run the snapshot is (0, 0) and nothing
\* is sent.
C18_SnapshotTracksSamples ==
    /\ pc = "command" =>
         /\ last_x_pos = x /\ last_angle = angle
         /\ ~moved =>
              /\ last_x_pos = xPos % 65536
              /\ last_angle = encoderReadAngle(anglePos)
              /\ (prev_x = xPos % 65536 /\ prev_angle = encoderReadAngle(anglePos)) =>
                   sent = << >>
    /\ edge = "none" => (sent = << >> /\ last_x_pos = 0 /\ last_angle = 0)

\* C18 witness: the encoders moved and then stood still for an iteration:
\* the snapshot holds the current readings and that iteration sent nothing.
C18_Witness ==
    /\ pc = "command"
    /\ ~moved
    /\ xPos = 1
    /\ anglePos = -1
    /\ prev_x = 1
    /\ prev_angle = 1199
    /\ last_x_pos = 1
    /\ last_angle = 1199
    /\ sent = << >>

\* C19: the bytes written to the host in an iteration are nothing or one whole
\* 5-byte frame beginning with 0xAA, also at the iteration's end; only the
\* telemetry step writes, a whole frame at a time: no step of the interrupt
\* handler, of the command handling or of the host changes what was written.
C19_WholeFramesOnly ==
    /\ [](Len(sent) \in {0, 5} /\ (Len(sent) = 5 => sent[1] = 170))
    /\ [][sent' # sent =>
            \/ (pc = "telemetry" /\ pc' = "command" /\ Len(sent') = Len(sent) + 5)
            \/ (pc = "readX" /\ pc' = "readXhi" /\ sent' = << >>)]_vars

\* C19 witness: an iteration that wrote a frame and dispatched a command has
\* ended, after the interrupt handler ran: one whole frame is all it wrote.
C19_Witness ==
    /\ pc = "readX"
    /\ edge = "x"
    /\ ~quiet
    /\ applied = << -200 >>
    /\ sent = << 170, 1, 0, 0, 0 >>

\* C20: for every raw tick count from -1200 up to 2399 encoderReadAngle
\* returns raw mod 1200, the non-negative remainder: so does the sample the
\* loop takes of such a count, and so does the function on the whole range.
C20_ModuloOnNearRange ==
    pc = "telemetry" =>
        /\ anglePos \in -1200 .. 2399 => angle = anglePos % 1200
        /\ anglePos = 0 => \A raw \in -1200 .. 2399 : encoderReadAngle(raw) = raw % 1200

\* C20 witness: the loop has sampled the lowest count of the range, -1200, as 0.
C20_Witness ==
    /\ pc = "telemetry"
    /\ anglePos = -1200
    /\ angle = 0
    /\ xPos = 0

=============================================================================
